---- MODULE Spec2Model ----
(***************************************************************************)
(* The family-tree manager of mshammas/familytree: the Neo4j store (Person *)
(* nodes, CHILD_OF / SPOUSE_OF relationships, the :Schema node) as the     *)
(* console manager (src/tree_manager.py) and the GUI manager               *)
(* (src/gui_manager.py) read and write it.                                 *)
(*                                                                         *)
(* A Person node is a property map: a function from property names to     *)
(* values whose DOMAIN is the set of properties the node has (a property   *)
(* that is null in Neo4j is one that is not in the DOMAIN).  Nodes are     *)
(* held under node handles (Neo4j's internal node identity), so that two   *)
(* nodes carrying the same id property are two nodes.                      *)
(***************************************************************************)
EXTENDS Integers, Sequences, FiniteSets, TLC

VARIABLES
    persons,            \* node handle -> property map of a :Person node
    rels,               \* set of <<type, start handle, end handle>>
    keys,               \* (:Schema {id:'person_schema'}).keys
    mandatory_keys,     \* (:Schema {id:'person_schema'}).mandatory_keys
    view_mode,          \* FamilyTreeApp.view_mode
    view_context_id,    \* FamilyTreeApp.view_context_id
    history,            \* FamilyTreeApp.history
    back_button,        \* state of FamilyTreeApp.back_button
    tree_rows,          \* ids listed in FamilyTreeApp.tree
    current_person_id,  \* FamilyTreeApp.current_person_id
    driver,             \* the front-end's driver: "none", "open" or "closed"
    db_name,            \* the database the front-end queries ("": not chosen)
    phase,              \* where the front-end's process is: "connect",
                        \* "select", "running" or "ended"
    last                \* the operation performed last, with its inputs

store_vars == <<persons, rels>>
schema_vars == <<keys, mandatory_keys>>
gui_vars == <<view_mode, view_context_id, history, back_button, tree_rows,
              current_person_id>>
conn_vars == <<driver, db_name, phase>>
vars == <<persons, rels, keys, mandatory_keys, view_mode, view_context_id,
          history, back_button, tree_rows, current_person_id, driver, db_name,
          phase, last>>

---------------------------------------------------------------------------
(* Bounds of the model. *)

\* Most Person nodes the store holds (creating a node is disabled beyond it).
MaxPersons == 3
\* Longest keys list (add_key is disabled beyond it).
MaxKeys == 6
\* Deepest navigation history (view_children is disabled beyond it).
MaxHistory == 2

\* Ids typed at the console.
Ids == {"a", "b"}
\* Ids typed at the console and in the spouse-id prompt while the GUI is in
\* use: "a_1" is also the id the GUI gives the child of "a" numbered "1".
GuiIds == {"a", "a_1"}
\* Property values typed by the user; "" is an entry left blank.
Vals == {"x", "y"}
\* Property names typed in the property-configuration submenu.
KeyNames == {"id", "created_at", "dod", "nick"}
\* Default values typed for a new property ("" is the prompt left blank).
Defaults == {"", "x"}
\* Names of the properties a caller of the repository sets and removes: one
\* that is mandatory in the default schema and one that is not.
EditKeys == {"firstName", "dod"}
\* Relationship types typed at the console.
RelTypes == {"CHILD_OF", "SPOUSE_OF", "spouse_of", "SIBLING_OF"}
\* Lines typed at a console prompt: nothing, a blank, and two values.
Typed == {"", " ", "x", "y"}
\* The properties whose console prompt gets every line of Typed; the other
\* prompts are answered "x" when mandatory and left empty when not.
ConsoleTyped == {"firstName", "dod"}
\* Child numbers typed in the data-entry dialog ("" is the field left blank).
ChildNums == {"", "1"}

---------------------------------------------------------------------------
(* Program constants. *)

\* A variant of MANAGED_PROPERTIES without the creation timestamp's name.
MANAGED_PROPERTIES_id_only == {"id"}

MANAGED_PROPERTIES == {"id", "created_at"}
DEFAULT_KEYS == <<"firstName", "lastName", "gender", "dob", "dod">>
DEFAULT_MANDATORY_KEYS == <<"firstName", "lastName", "gender", "dob">>
valid_rels == {"CHILD_OF", "SPOUSE_OF"}

\* The value timestamp() yields: an opaque non-empty reading of the clock.
Timestamp == "t0"

\* No current selection (None).
NoSelection == ""

\* What find_person returns for an id no Person has (None).
None == <<>>

---------------------------------------------------------------------------
(* Property maps and lists. *)

Range(s) == {s[i] : i \in DOMAIN s}

\* SET p += q : q's entries laid over p's.
Overlay(p, q) ==
    [k \in DOMAIN p \cup DOMAIN q |-> IF k \in DOMAIN q THEN q[k] ELSE p[k]]

\* REMOVE p.k for every k of ks.
Remove(p, ks) == [k \in DOMAIN p \ ks |-> p[k]]

\* SET p.k = v
SetProp(p, k, v) == [j \in DOMAIN p \cup {k} |-> IF j = k THEN v ELSE p[j]]

\* [x IN s WHERE x <> k]
RECURSIVE Without(_, _)
Without(s, k) ==
    IF s = <<>> THEN <<>>
    ELSE IF Head(s) = k THEN Without(Tail(s), k)
         ELSE <<Head(s)>> \o Without(Tail(s), k)

\* [new if x == old else x for x in s]
Renamed(s, old, new) == [i \in DOMAIN s |-> IF s[i] = old THEN new ELSE s[i]]

\* Every property map over a subset of ks with values in vs.
PropMaps(ks, vs) == UNION {[d -> vs] : d \in SUBSET ks}

---------------------------------------------------------------------------
(* The store: queries. *)

\* MATCH (p:Person {id: $id})
Matching(ps, id) == {n \in DOMAIN ps : "id" \in DOMAIN ps[n] /\ ps[n]["id"] = id}

\* The handle a created node gets.
NewHandle(ps) == CHOOSE n \in 1..(Cardinality(DOMAIN ps) + 1) : n \notin DOMAIN ps

\* The first record of a result: Neo4j returns the matches in node order.
First(S) == CHOOSE n \in S : \A m \in S : n <= m

\* find_person on the store ps.
FindIn(ps, person_id) ==
    LET result == Matching(ps, person_id)
    IN  IF result # {} THEN ps[First(result)] ELSE None

find_person(person_id) == FindIn(persons, person_id)

\* Rows of MATCH (p:Person {id: $id})-[:CHILD_OF]->(relative:Person)
ParentRows(ps, rs, id) ==
    {r \in rs : r[1] = "CHILD_OF" /\ r[2] \in Matching(ps, id)}

\* Rows of MATCH (p:Person {id: $id})<-[:CHILD_OF]-(relative:Person)
ChildRows(ps, rs, id) ==
    {r \in rs : r[1] = "CHILD_OF" /\ r[3] \in Matching(ps, id)}

\* Rows of MATCH (p:Person {id: $id})-[:SPOUSE_OF]-(relative:Person): one row
\* <<p, relationship, relative>> for every SPOUSE_OF relationship at p, in
\* either direction.
SpouseRows(ps, rs, id) ==
    {<<p, r, IF r[2] = p THEN r[3] ELSE r[2]>> :
        <<p, r>> \in {x \in Matching(ps, id) \X rs :
                        x[2][1] = "SPOUSE_OF" /\ x[1] \in {x[2][2], x[2][3]}}}

\* find_relatives(person_id, pattern): the rows' relatives, as node handles.
find_relatives(person_id, pattern) ==
    CASE pattern = "-[:CHILD_OF]->" ->
            [r \in ParentRows(persons, rels, person_id) |-> r[3]]
      [] pattern = "<-[:CHILD_OF]-" ->
            [r \in ChildRows(persons, rels, person_id) |-> r[2]]
      [] pattern = "-[:SPOUSE_OF]-" ->
            [r \in SpouseRows(persons, rels, person_id) |-> r[3]]

\* How many rows of a find_relatives result are a Person with this id.
Listed(result, id) ==
    Cardinality({r \in DOMAIN result : result[r] \in Matching(persons, id)})

---------------------------------------------------------------------------
(* Person Repository: what each query leaves in the store. *)

\* A variant of add_person that replaces what a matched Person holds (SET p =
\* instead of SET p +=), keeping only its id and creation timestamp.
add_person_replacing(ps, person_id, properties) ==
    LET matched == Matching(ps, person_id)
        n == NewHandle(ps)
    IN  [h \in DOMAIN ps \cup (IF matched = {} THEN {n} ELSE {}) |->
            IF h = n \/ h \in matched
            THEN Overlay([id |-> person_id, created_at |-> Timestamp], properties)
            ELSE ps[h]]

\* MERGE (p:Person {id: $person_id}) ON CREATE SET p.created_at = timestamp()
\* SET p += $properties
add_person(ps, person_id, properties) ==
    LET matched == Matching(ps, person_id)
        n == NewHandle(ps)
    IN  IF matched = {}
        THEN [h \in DOMAIN ps \cup {n} |->
                IF h = n
                THEN Overlay([id |-> person_id, created_at |-> Timestamp],
                             properties)
                ELSE ps[h]]
        ELSE [h \in DOMAIN ps |->
                IF h \in matched THEN Overlay(ps[h], properties) ELSE ps[h]]

\* A variant of update_person without the REMOVE clause.
update_person_keeping(ps, person_id, props_to_set, props_to_remove) ==
    [h \in DOMAIN ps |->
        IF h \in Matching(ps, person_id)
        THEN Overlay(ps[h], props_to_set)
        ELSE ps[h]]

\* MATCH (p:Person {id: $id}) SET p += $props_to_set REMOVE p.`k`, ...
\* (no query at all when there is nothing to set and nothing to remove)
update_person(ps, person_id, props_to_set, props_to_remove) ==
    IF props_to_set = <<>> /\ props_to_remove = {}
    THEN ps
    ELSE [h \in DOMAIN ps |->
            IF h \in Matching(ps, person_id)
            THEN Remove(Overlay(ps[h], props_to_set), props_to_remove)
            ELSE ps[h]]

\* MATCH (p:Person {id: $person_id}) DETACH DELETE p : the nodes left
delete_person(ps, person_id) ==
    [h \in DOMAIN ps \ Matching(ps, person_id) |-> ps[h]]

\* A variant of Detach that leaves the deleted nodes' relationships behind.
Detach_nothing(rs, gone) == rs

\* DETACH: the relationships left once the nodes of `gone` are deleted
Detach(rs, gone) == {r \in rs : r[2] \notin gone /\ r[3] \notin gone}

\* rel_type.upper()
upper(rel_type) ==
    CASE rel_type = "child_of" -> "CHILD_OF"
      [] rel_type = "spouse_of" -> "SPOUSE_OF"
      [] rel_type = "friend_of" -> "FRIEND_OF"
      [] OTHER -> rel_type

\* MATCH (a:Person {id: $id1}), (b:Person {id: $id2}) MERGE (a)-[r:T]->(b)
\* A directed MERGE: a row creates a -> b unless a T relationship from a to
\* b is there already.
MergeDirected(ps, rs, id1, id2, T) ==
    rs \cup {<<T, a, b>> : <<a, b>> \in Matching(ps, id1) \X Matching(ps, id2)}

add_relationship(ps, rs, id1, id2, rel_type) ==
    IF upper(rel_type) \notin valid_rels
    THEN rs
    ELSE MergeDirected(ps, rs, id1, id2, upper(rel_type))

---------------------------------------------------------------------------
(* Schema Store: what each operation leaves in the :Schema node and in the *)
(* Person nodes.                                                           *)

\* SET s.keys = s.keys + $key WHERE NOT $key IN s.keys
Appended(s, key) == IF key \in Range(s) THEN s ELSE Append(s, key)

add_property_key_keys(ks, key) == Appended(ks, key)

add_property_key_mandatory(mks, key, is_mandatory) ==
    IF is_mandatory THEN Appended(mks, key) ELSE mks

\* MATCH (p:Person) SET p.`key` = $default_value
add_property_key_nodes(ps, key, default_value) ==
    [h \in DOMAIN ps |-> SetProp(ps[h], key, default_value)]

rename_property_key_keys(ks, old_key, new_key) ==
    IF old_key \in Range(ks) THEN Renamed(ks, old_key, new_key) ELSE ks

rename_property_key_mandatory(mks, old_key, new_key) ==
    IF old_key \in Range(mks) THEN Renamed(mks, old_key, new_key) ELSE mks

\* MATCH (p:Person) WHERE p.`old` IS NOT NULL SET p.`new` = p.`old`
\* REMOVE p.`old` : the SET acts first, the REMOVE on what it leaves
rename_property_key_nodes(ps, old_key, new_key) ==
    [h \in DOMAIN ps |->
        IF old_key \in DOMAIN ps[h]
        THEN Remove(SetProp(ps[h], new_key, ps[h][old_key]), {old_key})
        ELSE ps[h]]

delete_property_key_keys(ks, key) == Without(ks, key)

delete_property_key_mandatory(mks, key) == Without(mks, key)

\* MATCH (p:Person) REMOVE p.`key`
delete_property_key_nodes(ps, key) == [h \in DOMAIN ps |-> Remove(ps[h], {key})]

---------------------------------------------------------------------------
(* The initial state: an empty database in which FamilyTreeManager has     *)
(* created the :Schema node, and the GUI showing the top generation.       *)

\* The store, the schema and the GUI's view as a front-end finds them when
\* it starts.
InitStore ==
    /\ persons = <<>>
    /\ rels = {}
    /\ keys = DEFAULT_KEYS
    /\ mandatory_keys = DEFAULT_MANDATORY_KEYS
    /\ view_mode = "generation"
    /\ view_context_id = 1
    /\ history = <<>>
    /\ back_button = "disabled"
    /\ tree_rows = {}
    /\ current_person_id = NoSelection
    /\ last = [op |-> "init"]

\* A front-end that has connected to the hosted instance and runs.
Init ==
    /\ InitStore
    /\ driver = "open"
    /\ db_name = "neo4j"
    /\ phase = "running"

\* A front-end that starts: no driver yet, on its connection step.
InitStartup ==
    /\ InitStore
    /\ driver = "none"
    /\ db_name = ""
    /\ phase = "connect"

\* A Person node can be created: the store is below the model's bound.
CanCreate == Cardinality(DOMAIN persons) < MaxPersons

---------------------------------------------------------------------------
(* Console manager: the repository operations.                             *)

AddPerson(person_id, properties) ==
    /\ Matching(persons, person_id) # {} \/ CanCreate
    /\ persons' = add_person(persons, person_id, properties)
    /\ last' = [op |-> "add", id |-> person_id, properties |-> properties,
                existed |-> Matching(persons, person_id) # {}]
    /\ UNCHANGED <<conn_vars, rels, schema_vars, gui_vars>>

UpdatePerson(person_id, props_to_set, props_to_remove) ==
    /\ persons' = update_person(persons, person_id, props_to_set, props_to_remove)
    /\ last' = [op |-> "update", id |-> person_id, props_to_set |-> props_to_set,
                props_to_remove |-> props_to_remove,
                existed |-> Matching(persons, person_id) # {}]
    /\ UNCHANGED <<conn_vars, rels, schema_vars, gui_vars>>

DeletePerson(person_id) ==
    /\ persons' = delete_person(persons, person_id)
    /\ rels' = Detach(rels, Matching(persons, person_id))
    /\ last' = [op |-> "delete", id |-> person_id,
                \* relationships the deleted Persons had
                detached |-> Cardinality(rels \ Detach(rels, Matching(persons, person_id)))]
    /\ UNCHANGED <<conn_vars, schema_vars, gui_vars>>

AddRelationship(id1, id2, rel_type) ==
    /\ rels' = add_relationship(persons, rels, id1, id2, rel_type)
    /\ last' = [op |-> "link", id1 |-> id1, id2 |-> id2, rel_type |-> rel_type,
                \* the call made just before was this same call
                again |-> (last.op = "link" /\ last.id1 = id1 /\ last.id2 = id2
                           /\ last.rel_type = rel_type),
                \* the call made just before was the same link, reversed
                reversed |-> (last.op = "link" /\ last.id1 = id2
                              /\ last.id2 = id1 /\ last.rel_type = rel_type)]
    /\ UNCHANGED <<conn_vars, persons, schema_vars, gui_vars>>

---------------------------------------------------------------------------
(* Console manager: config_menu, the property-configuration submenu.       *)

\* choice '1': add a new property
ConfigAddKey(key, is_mandatory, default) ==
    IF key \in MANAGED_PROPERTIES
    THEN /\ last' = [op |-> "add_key", key |-> key, rejected |-> TRUE]
         /\ UNCHANGED <<conn_vars, store_vars, schema_vars, gui_vars>>
    ELSE /\ key \in Range(keys) \/ Len(keys) < MaxKeys
         /\ keys' = add_property_key_keys(keys, key)
         /\ mandatory_keys' =
                add_property_key_mandatory(mandatory_keys, key, is_mandatory)
         /\ persons' = add_property_key_nodes(persons, key, default)
         /\ last' = [op |-> "add_key", key |-> key, rejected |-> FALSE]
         /\ UNCHANGED <<conn_vars, rels, gui_vars>>

\* choice '2': rename an existing property
ConfigRenameKey(old_key, new_key) ==
    /\ keys' = rename_property_key_keys(keys, old_key, new_key)
    /\ mandatory_keys' =
            rename_property_key_mandatory(mandatory_keys, old_key, new_key)
    /\ persons' = rename_property_key_nodes(persons, old_key, new_key)
    /\ last' = [op |-> "rename_key", old_key |-> old_key, new_key |-> new_key]
    /\ UNCHANGED <<conn_vars, rels, gui_vars>>

\* choice '3': delete a property, once the user has answered 'yes'
ConfigDeleteKey(key, sure) ==
    /\ IF sure
       THEN /\ keys' = delete_property_key_keys(keys, key)
            /\ mandatory_keys' = delete_property_key_mandatory(mandatory_keys, key)
            /\ persons' = delete_property_key_nodes(persons, key)
       ELSE UNCHANGED <<conn_vars, persons, schema_vars>>
    /\ last' = [op |-> "delete_key", key |-> key, sure |-> sure]
    /\ UNCHANGED <<conn_vars, rels, gui_vars>>

---------------------------------------------------------------------------
(* GUI manager: the listing and the navigation.                            *)

\* A Person with an outgoing CHILD_OF relationship: (p)-[:CHILD_OF]->(:Person)
HasParent(rs, n) == \E r \in rs : r[1] = "CHILD_OF" /\ r[2] = n

\* _display_top_gen_internal: the ids of the Persons with no parent
TopGenRows(ps, rs) ==
    {ps[n]["id"] : n \in {m \in DOMAIN ps : "id" \in DOMAIN ps[m] /\ ~HasParent(rs, m)}}

\* _display_children_internal: the ids of the children of parent_id
ChildrenRows(ps, rs, parent_id) ==
    {ps[n]["id"] : n \in {r[2] : r \in {x \in ChildRows(ps, rs, parent_id) :
                                            "id" \in DOMAIN ps[x[2]]}}}

\* A variant of _load_view that pushes the current view whatever
\* add_to_history says.
LoadView_pushing(ps, rs, hist, mode, context_id, add_to_history) ==
    /\ history' = Append(hist, <<view_mode, view_context_id>>)
    /\ IF mode = "children"
       THEN /\ view_mode' = "children"
            /\ view_context_id' = context_id
            /\ tree_rows' = ChildrenRows(ps, rs, context_id)
       ELSE /\ view_mode' = "generation"
            /\ view_context_id' = 1
            /\ tree_rows' = TopGenRows(ps, rs)
    /\ current_person_id' = NoSelection
    /\ back_button' = IF history' # <<>> THEN "normal" ELSE "disabled"

\* _load_view(mode, context_id, add_to_history) on the store (ps, rs), after
\* the history has become hist; both displays end in reset_buttons.
LoadView(ps, rs, hist, mode, context_id, add_to_history) ==
    /\ history' = IF add_to_history
                  THEN Append(hist, <<view_mode, view_context_id>>)
                  ELSE hist
    /\ IF mode = "children"
       THEN /\ view_mode' = "children"
            /\ view_context_id' = context_id
            /\ tree_rows' = ChildrenRows(ps, rs, context_id)
       ELSE /\ view_mode' = "generation"
            /\ view_context_id' = 1
            /\ tree_rows' = TopGenRows(ps, rs)
    /\ current_person_id' = NoSelection
    /\ back_button' = IF history' # <<>> THEN "normal" ELSE "disabled"

\* refresh_current_view
RefreshCurrentView(ps, rs) ==
    LoadView(ps, rs, history, view_mode, view_context_id, FALSE)

\* on_person_select: a row of the listing is selected
SelectPerson(id) ==
    /\ id \in tree_rows
    /\ current_person_id' = id
    /\ last' = [op |-> "select", id |-> id]
    /\ UNCHANGED <<conn_vars, store_vars, schema_vars, view_mode,
                   view_context_id, history, back_button, tree_rows>>

ViewChildren ==
    /\ current_person_id # NoSelection
    /\ Len(history) < MaxHistory
    /\ LoadView(persons, rels, history, "children", current_person_id, TRUE)
    /\ last' = [op |-> "view_children", mode |-> view_mode,
                context_id |-> view_context_id, history |-> history]
    /\ UNCHANGED <<conn_vars, store_vars, schema_vars>>

\* A variant of go_to_top_generation that leaves the history as it is.
GoToTopGeneration_keeping ==
    /\ LoadView(persons, rels, history, "generation", 1, FALSE)
    /\ last' = [op |-> "go_to_top_generation"]
    /\ UNCHANGED <<conn_vars, store_vars, schema_vars>>

GoToTopGeneration ==
    /\ LoadView(persons, rels, <<>>, "generation", 1, FALSE)
    /\ last' = [op |-> "go_to_top_generation"]
    /\ UNCHANGED <<conn_vars, store_vars, schema_vars>>

GoBack ==
    /\ history # <<>>
    /\ LoadView(persons, rels, SubSeq(history, 1, Len(history) - 1),
                history[Len(history)][1], history[Len(history)][2], FALSE)
    /\ last' = [op |-> "go_back", undoes |-> last.op]
    /\ UNCHANGED <<conn_vars, store_vars, schema_vars>>

---------------------------------------------------------------------------
(* GUI manager: the data-entry dialog and add child / sibling / spouse.    *)

\* The properties whose entry the user types into; every other entry is
\* left blank.
TypedProps == {"childNumber", "id"}

\* What the user may type into the entry of a property.
FieldVals(prop) ==
    CASE prop = "childNumber" -> ChildNums
      [] prop = "id" -> {"", "a"}
      [] OTHER -> {""}

\* PersonFormDialog.__init__: the entries the user fills in, one for every
\* property of the schema but genNumber (whose entry is read-only).
FormEntries(schema) ==
    LET props == Range(schema) \ {"genNumber"}
        typed == {t \in [props \cap TypedProps -> {"", "a"} \cup ChildNums] :
                    \A prop \in DOMAIN t : t[prop] \in FieldVals(prop)}
    IN  {[prop \in props |-> IF prop \in DOMAIN t THEN t[prop] ELSE ""] : t \in typed}

\* p.genNumber of the first record, or 1
GenNumberOf(ps, id) ==
    LET records == Matching(ps, id)
    IN  IF records # {} /\ "genNumber" \in DOMAIN ps[First(records)]
        THEN ps[First(records)]["genNumber"]
        ELSE 1

\* PersonFormDialog.submit for a child or a sibling: the dialog's result once
\* it is closed, given the entries and the parent id that LIMIT 1 returned
\* (NoSelection when the query returned no row).  A submit that is rejected
\* (no childNumber entry, a blank childNumber, no parent) leaves the dialog
\* open with the result it has filled so far, and the user closes it with
\* Cancel.
SubmitRelative(relationship_type, related_person_id, entries, gen_number, parent_id) ==
    LET result == Overlay([genNumber |-> gen_number], entries)
        id_base == IF relationship_type = "sibling" THEN parent_id
                   ELSE related_person_id
    IN  IF "childNumber" \notin DOMAIN entries THEN result
        ELSE IF entries["childNumber"] = "" THEN result
        ELSE IF relationship_type = "sibling" /\ parent_id = NoSelection THEN result
        ELSE Overlay(result, [id |-> id_base \o "_" \o entries["childNumber"]])

\* PersonFormDialog.submit for a spouse: the id is what askstring returned
\* ("" when the prompt was cancelled or left blank).
SubmitSpouse(entries, gen_number, asked_id) ==
    Overlay(Overlay([genNumber |-> gen_number], entries), [id |-> asked_id])

\* {k: v for k, v in dialog.result.items() if v and k != 'id'}
NewPersonData(result) ==
    [k \in {j \in DOMAIN result \ {"id"} :
                IF j = "genNumber" THEN result[j] # 0 ELSE result[j] # ""}
        |-> result[k]]

\* dialog.result.get('id'), "" standing for None
NewPersonId(result) == IF "id" \in DOMAIN result THEN result["id"] ELSE ""

\* CREATE (p:Person {id: $id}) SET p += $props
create_person(ps, id, props) ==
    [h \in DOMAIN ps \cup {NewHandle(ps)} |->
        IF h = NewHandle(ps) THEN Overlay([id |-> id], props) ELSE ps[h]]

\* MERGE (p1)-[:T]-(p2) row by row: a row creates p1 -> p2 unless a T
\* relationship joins p1 and p2 in either direction.  Rows are taken in node
\* order.
RECURSIVE MergeRows(_, _, _)
MergeRows(rs, rows, T) ==
    IF rows = {} THEN rs
    ELSE LET row == CHOOSE x \in rows :
                        \A y \in rows : x[1] < y[1] \/ (x[1] = y[1] /\ x[2] <= y[2])
         IN  MergeRows(IF <<T, row[1], row[2]>> \in rs \/ <<T, row[2], row[1]>> \in rs
                       THEN rs
                       ELSE rs \cup {<<T, row[1], row[2]>>},
                       rows \ {row}, T)

\* MATCH (p1:Person {id: $p1_id}), (p2:Person {id: $p2_id})
\* MERGE (p1)-[:SPOUSE_OF]-(p2)
MergeUndirected(ps, rs, id1, id2, T) ==
    MergeRows(rs, Matching(ps, id1) \X Matching(ps, id2), T)

\* MATCH (p:Person {id: $id})-[:SPOUSE_OF]-(s:Person) RETURN s.id
SpouseIds(ps, rs, id) ==
    {ps[row[3]]["id"] : row \in {x \in SpouseRows(ps, rs, id) : "id" \in DOMAIN ps[x[3]]}}

\* MATCH (:Person {id: $id})-[:CHILD_OF]->(parent:Person) RETURN parent.id
ParentIds(ps, rs, id) ==
    {ps[r[3]]["id"] : r \in {x \in ParentRows(ps, rs, id) : "id" \in DOMAIN ps[x[3]]}}

\* MATCH (c:Person {id: $child_id}), (p:Person {id: $parent_id})
\* MERGE (c)-[:CHILD_OF]->(p), for every parent id
LinkChild(ps, rs, child_id, parent_ids) ==
    rs \cup {<<"CHILD_OF", c, q>> :
                <<c, q>> \in Matching(ps, child_id) \X
                             UNION {Matching(ps, parent_id) : parent_id \in parent_ids}}

\* open_person_form, the linking of the new Person
link_new_person(ps, rs, relationship_type, new_person_id, related_person_id) ==
    CASE relationship_type = "child" ->
            LinkChild(ps, rs, new_person_id,
                      {related_person_id} \cup SpouseIds(ps, rs, related_person_id))
      [] relationship_type = "sibling" ->
            LinkChild(ps, rs, new_person_id, ParentIds(ps, rs, related_person_id))
      [] relationship_type = "spouse" ->
            MergeUndirected(ps, rs, new_person_id, related_person_id, "SPOUSE_OF")

\* open_person_form once the dialog is closed: result is dialog.result, or
\* None when the dialog was cancelled before any submit.
OpenPersonForm(relationship_type, related_person_id, result) ==
    IF result = None
    THEN /\ last' = [op |-> "gui_add", kind |-> relationship_type,
                     related |-> related_person_id, outcome |-> "cancelled"]
         /\ UNCHANGED <<conn_vars, store_vars, schema_vars, gui_vars>>
    ELSE IF NewPersonId(result) = ""
    THEN /\ last' = [op |-> "gui_add", kind |-> relationship_type,
                     related |-> related_person_id, outcome |-> "id_required"]
         /\ UNCHANGED <<conn_vars, store_vars, schema_vars, gui_vars>>
    ELSE /\ CanCreate
         /\ persons' = create_person(persons, NewPersonId(result), NewPersonData(result))
         /\ rels' = link_new_person(persons', rels, relationship_type,
                                    NewPersonId(result), related_person_id)
         /\ RefreshCurrentView(persons', rels')
         /\ last' = [op |-> "gui_add", kind |-> relationship_type,
                     related |-> related_person_id, outcome |-> "created",
                     id |-> NewPersonId(result), node |-> NewHandle(persons)]
         /\ UNCHANGED <<conn_vars, schema_vars>>

\* add_child, with the dialog cancelled (submitted = FALSE) or filled in
\* with these entries and submitted
AddChild(entries, submitted) ==
    /\ current_person_id # NoSelection
    /\ OpenPersonForm("child", current_person_id,
            IF submitted
            THEN SubmitRelative("child", current_person_id, entries,
                                GenNumberOf(persons, current_person_id) + 1, NoSelection)
            ELSE None)

\* A variant of SiblingRecords whose query does not name the selected id.
SiblingRecords_anyone(ps, rs, id) == {r \in rs : r[1] = "CHILD_OF"}

\* The rows of add_sibling's query: the selected id's CHILD_OF relationships
SiblingRecords(ps, rs, id) == ParentRows(ps, rs, id)

\* add_sibling; parent_id is the row the dialog's LIMIT 1 query returns
AddSibling(entries, submitted, parent_id) ==
    /\ current_person_id # NoSelection
    /\ IF SiblingRecords(persons, rels, current_person_id) = {}
       THEN /\ parent_id = NoSelection
            /\ last' = [op |-> "gui_add", kind |-> "sibling",
                        related |-> current_person_id, outcome |-> "no_parents"]
            /\ UNCHANGED <<conn_vars, store_vars, schema_vars, gui_vars>>
       ELSE /\ IF ParentIds(persons, rels, current_person_id) = {}
               THEN parent_id = NoSelection
               ELSE parent_id \in ParentIds(persons, rels, current_person_id)
            /\ OpenPersonForm("sibling", current_person_id,
                    IF submitted
                    THEN SubmitRelative("sibling", current_person_id, entries,
                                        GenNumberOf(persons, current_person_id),
                                        parent_id)
                    ELSE None)

\* add_spouse; asked_id is what the id prompt returned
AddSpouse(entries, submitted, asked_id) ==
    /\ current_person_id # NoSelection
    /\ OpenPersonForm("spouse", current_person_id,
            IF submitted
            THEN SubmitSpouse(entries, GenNumberOf(persons, current_person_id), asked_id)
            ELSE None)

---------------------------------------------------------------------------
(* Console manager: the prompts, add_person_menu and modify_person_menu.   *)

\* input(...).strip()
strip(value) == IF value = " " THEN "" ELSE value

\* get_input(prompt, required) returns the line once it is accepted: a
\* required prompt is repeated until the stripped line is not empty.
Accepted(line, required) == strip(line) # "" \/ ~required
get_input(line, required) == strip(line)

\* The accepted lines for the prompts of a menu that asks for every property
\* of the schema.
MenuAnswers(schema, mandatory) ==
    LET props == Range(schema)
        typed == UNION {[d -> Typed] : d \in {props \cap ConsoleTyped}}
        all == {[prop \in props |->
                    IF prop \in DOMAIN t THEN t[prop]
                    ELSE IF prop \in Range(mandatory) THEN "x" ELSE ""] :
                t \in typed}
    IN  {a \in all : \A prop \in props : Accepted(a[prop], prop \in Range(mandatory))}

\* add_person_menu: only a property for which a value was entered is added
AddPersonMenu(person_id, answers) ==
    LET entered == {prop \in Range(keys) :
                        get_input(answers[prop], prop \in Range(mandatory_keys)) # ""}
        properties == [prop \in entered |->
                        get_input(answers[prop], prop \in Range(mandatory_keys))]
    IN  /\ Matching(persons, person_id) = {} => CanCreate
        /\ persons' = add_person(persons, person_id, properties)
        /\ last' = [op |-> "add_menu", id |-> person_id,
                    existed |-> Matching(persons, person_id) # {},
                    node |-> IF Matching(persons, person_id) # {}
                             THEN First(Matching(persons, person_id))
                             ELSE NewHandle(persons)]
        /\ UNCHANGED <<conn_vars, rels, schema_vars, gui_vars>>

\* person.get(prop, "")
get(person, prop) == IF prop \in DOMAIN person THEN person[prop] ELSE ""

\* modify_person_menu
ModifyPersonMenu(person_id, answers) ==
    LET person == find_person(person_id)
        is_req(prop) == prop \in Range(mandatory_keys)
        new_val(prop) == get_input(answers[prop], is_req(prop))
        changed == {prop \in Range(keys) : new_val(prop) # get(person, prop)}
        props_to_set == [prop \in {c \in changed : new_val(c) # ""} |-> new_val(prop)]
        props_to_remove == {prop \in changed : new_val(prop) = "" /\ ~is_req(prop)}
    IN  IF person = None
        THEN /\ last' = [op |-> "modify_menu", id |-> person_id, found |-> FALSE]
             /\ UNCHANGED <<conn_vars, store_vars, schema_vars, gui_vars>>
        ELSE /\ persons' = update_person(persons, person_id, props_to_set,
                                         props_to_remove)
             /\ last' = [op |-> "modify_menu", id |-> person_id, found |-> TRUE,
                         answers |-> answers]
             /\ UNCHANGED <<conn_vars, rels, schema_vars, gui_vars>>

---------------------------------------------------------------------------
(* Console manager: the process, from connect_and_select_db to its end.    *)

\* What GraphDatabase.driver / verify_connectivity do at startup, and
\* whether the first query (_ensure_schema_node_exists) then fails.
StartupOutcomes == {"bad_uri", "auth_error", "unreachable", "ok", "schema_query_failed"}

\* uri = "neo4j+s://51ac777b.databases.neo4j.io": a hosted instance
ConsoleUriHosted == TRUE

\* connect_and_select_db followed by the start of __main__.  Every failure
\* inside connect_and_select_db returns (None, None), with which __main__
\* skips its try block and the program ends; a driver that was created is
\* closed only by the finally of that try block.
ConsoleStartup(hosted, outcome, db_names) ==
    /\ phase = "connect"
    /\ LET created == outcome # "bad_uri"
           connected == outcome \in {"ok", "schema_query_failed"}
           selected == connected /\ (hosted \/ db_names # {})
       IN  /\ driver' = IF ~created THEN "none"
                        ELSE IF selected /\ outcome = "schema_query_failed"
                        THEN "closed"
                        ELSE "open"
           /\ db_name' = IF ~selected THEN ""
                         ELSE IF hosted THEN "neo4j"
                         ELSE CHOOSE n \in db_names : TRUE
           /\ phase' = IF selected /\ outcome = "ok" THEN "running" ELSE "ended"
           /\ last' = [op |-> "startup", acquired |-> created]
    /\ UNCHANGED <<store_vars, schema_vars, gui_vars>>

\* The menu operations of the main loop.
MenuOperations == {"add", "modify", "delete", "link", "configure", "list"}

\* A menu operation whose query raises a backend error: no handler of the
\* loop catches it, so it reaches the except clause that encloses the loop,
\* is printed, and the finally clause closes the driver.
MenuOperationFails(operation) ==
    /\ phase = "running"
    /\ phase' = "ended"
    /\ driver' = "closed"
    /\ last' = [op |-> "failed", operation |-> operation]
    /\ UNCHANGED <<db_name, store_vars, schema_vars, gui_vars>>

\* choice '0': the loop is left and the finally clause closes the driver
Exit ==
    /\ phase = "running"
    /\ phase' = "ended"
    /\ driver' = "closed"
    /\ last' = [op |-> "exit"]
    /\ UNCHANGED <<db_name, store_vars, schema_vars, gui_vars>>

---------------------------------------------------------------------------
(* GUI manager: modify_person.                                             *)

\* The properties whose entry the user edits in the Modify dialog, and what
\* the user leaves in such an entry; every other entry keeps what the dialog
\* put into it.
EditedProps == {"firstName", "dod"}
EditedVals == {"", "y"}
DialogEdits(schema) == UNION {[d -> EditedVals] : d \in SUBSET (Range(schema) \cap EditedProps)}

\* The dialog's entries when it is submitted: one per property of the schema
\* other than genNumber, holding the Person's value (or nothing) unless the
\* user has edited it, and the read-only genNumber entry.
ModifyEntries(schema, person_data, edits) ==
    Overlay([prop \in Range(schema) \ {"genNumber"} |->
                IF prop \in DOMAIN edits THEN edits[prop] ELSE get(person_data, prop)],
            [genNumber |-> IF "genNumber" \in DOMAIN person_data
                           THEN person_data["genNumber"] ELSE 1])

\* {k: v for k, v in updated_data.items() if v}
ModifyPropsToSet(updated_data) ==
    [k \in {j \in DOMAIN updated_data :
                IF j = "genNumber" THEN updated_data[j] # 0 ELSE updated_data[j] # ""}
        |-> updated_data[k]]

\* [k for k, v in updated_data.items() if not v and k != 'genNumber']
ModifyPropsToRemove(updated_data) ==
    {k \in DOMAIN updated_data \ {"genNumber"} : updated_data[k] = ""}

\* modify_person, with the dialog cancelled (submitted = FALSE) or submitted
\* after these edits
ModifyPerson(edits, submitted) ==
    /\ current_person_id # NoSelection
    /\ IF find_person(current_person_id) = None
       THEN /\ last' = [op |-> "gui_modify", outcome |-> "not_found"]
            /\ UNCHANGED <<conn_vars, store_vars, schema_vars, gui_vars>>
       ELSE IF ~submitted
       THEN /\ last' = [op |-> "gui_modify", outcome |-> "cancelled"]
            /\ UNCHANGED <<conn_vars, store_vars, schema_vars, gui_vars>>
       ELSE LET updated_data ==
                    ModifyEntries(keys, find_person(current_person_id), edits)
            IN  /\ persons' = [h \in DOMAIN persons |->
                        IF h \in Matching(persons, current_person_id)
                        THEN Remove(Overlay(persons[h], ModifyPropsToSet(updated_data)),
                                    ModifyPropsToRemove(updated_data))
                        ELSE persons[h]]
                /\ RefreshCurrentView(persons', rels)
                /\ last' = [op |-> "gui_modify", outcome |-> "updated",
                            id |-> current_person_id]
                /\ UNCHANGED <<conn_vars, rels, schema_vars>>

---------------------------------------------------------------------------
(* GUI manager: the connection screen and the driver.                      *)

\* What GraphDatabase.driver / verify_connectivity / SHOW DATABASES can do.
ConnectOutcomes == {"bad_uri", "auth_error", "unreachable", "ok"}
\* The user-created databases a self-managed instance can list.
DbLists == {{}, {"family"}}

\* connect_to_db.  hosted: the URI contains ".databases.neo4j.io".
\* GraphDatabase.driver leaves self.driver as it was when it raises
\* (bad_uri); verify_connectivity raises with the new driver assigned.  On
\* the self-managed path the with-block closes self.driver when it ends.
ConnectToDb(hosted, outcome, db_names) ==
    /\ phase = "connect"
    /\ IF outcome = "bad_uri"
       THEN /\ last' = [op |-> "connect_to_db", outcome |-> "failed"]
            /\ UNCHANGED <<conn_vars, store_vars, schema_vars, gui_vars>>
       ELSE IF outcome # "ok"
       THEN /\ driver' = "open"
            /\ last' = [op |-> "connect_to_db", outcome |-> "failed"]
            /\ UNCHANGED <<db_name, phase, store_vars, schema_vars, gui_vars>>
       ELSE IF hosted
       THEN /\ driver' = "open"
            /\ db_name' = "neo4j"
            /\ phase' = "running"
            /\ LoadView(persons, rels, <<>>, "generation", 1, FALSE)
            /\ last' = [op |-> "connect_to_db", outcome |-> "main_app"]
            /\ UNCHANGED <<store_vars, schema_vars>>
       ELSE /\ driver' = "closed"
            /\ phase' = IF db_names = {} THEN "connect" ELSE "select"
            /\ last' = [op |-> "connect_to_db",
                        outcome |-> IF db_names = {} THEN "no_databases"
                                    ELSE "db_selection"]
            /\ UNCHANGED <<db_name, store_vars, schema_vars, gui_vars>>

\* _load_view when its query raises: the view's mode and context are set and
\* the listing is emptied before the query; reset_buttons and the update of
\* the back button are not reached.
LoadViewRaises(hist, mode, context_id, add_to_history) ==
    /\ history' = IF add_to_history
                  THEN Append(hist, <<view_mode, view_context_id>>)
                  ELSE hist
    /\ view_mode' = IF mode = "children" THEN "children" ELSE "generation"
    /\ view_context_id' = IF mode = "children" THEN context_id ELSE 1
    /\ tree_rows' = {}
    /\ UNCHANGED <<current_person_id, back_button>>

\* run_query through a driver that has been closed raises or is served,
\* depending on the version of the driver library; through an open driver it
\* is served.
QueryCanRaise == driver = "closed"

\* initialize_main_app from the database selection screen: the combobox
\* holds the chosen name; the main window is built and go_to_top_generation
\* runs its query.
InitializeMainApp(choice, raises) ==
    /\ phase = "select"
    /\ raises => QueryCanRaise
    /\ db_name' = IF db_name = "" THEN choice ELSE db_name
    /\ phase' = "running"
    /\ IF raises
       THEN LoadViewRaises(<<>>, "generation", 1, FALSE)
       ELSE LoadView(persons, rels, <<>>, "generation", 1, FALSE)
    /\ last' = [op |-> "initialize_main_app", raised |-> raises]
    /\ UNCHANGED <<driver, store_vars, schema_vars>>

\* go_to_top_generation when its query raises
GoToTopGenerationRaises ==
    /\ phase = "running"
    /\ QueryCanRaise
    /\ LoadViewRaises(<<>>, "generation", 1, FALSE)
    /\ last' = [op |-> "go_to_top_generation", raised |-> TRUE]
    /\ UNCHANGED <<conn_vars, store_vars, schema_vars>>

\* view_children when its query raises
ViewChildrenRaises ==
    /\ phase = "running"
    /\ QueryCanRaise
    /\ current_person_id # NoSelection
    /\ Len(history) < MaxHistory
    /\ LoadViewRaises(history, "children", current_person_id, TRUE)
    /\ last' = [op |-> "view_children", raised |-> TRUE]
    /\ UNCHANGED <<conn_vars, store_vars, schema_vars>>

\* go_back when its query raises
GoBackRaises ==
    /\ phase = "running"
    /\ QueryCanRaise
    /\ history # <<>>
    /\ LoadViewRaises(SubSeq(history, 1, Len(history) - 1),
                      history[Len(history)][1], history[Len(history)][2], FALSE)
    /\ last' = [op |-> "go_back", raised |-> TRUE]
    /\ UNCHANGED <<conn_vars, store_vars, schema_vars>>

\* add_child, add_sibling, add_spouse when the first query raises: nothing
\* has been changed yet.
AddRelativeRaises(relationship_type) ==
    /\ phase = "running"
    /\ QueryCanRaise
    /\ current_person_id # NoSelection
    /\ last' = [op |-> "gui_add", kind |-> relationship_type,
                related |-> current_person_id, outcome |-> "raised"]
    /\ UNCHANGED <<conn_vars, store_vars, schema_vars, gui_vars>>

---------------------------------------------------------------------------
(* Specifications.                                                         *)

\* The Person Repository's add, update and delete, called with every
\* property map over EditKeys.
NextRepo ==
    \/ \E i \in Ids, p \in PropMaps(EditKeys, Vals) : AddPerson(i, p)
    \/ \E i \in Ids, p \in PropMaps(EditKeys, Vals), r \in SUBSET EditKeys :
            UpdatePerson(i, p, r)
    \/ \E i \in Ids : DeletePerson(i)

SpecRepo == Init /\ [][NextRepo]_vars

\* The Person Repository's add, link and delete.
NextLink ==
    \/ \E i \in Ids : AddPerson(i, <<>>)
    \/ \E i \in Ids, j \in Ids, t \in RelTypes : AddRelationship(i, j, t)
    \/ \E i \in Ids : DeletePerson(i)

SpecLink == Init /\ [][NextLink]_vars

\* The property-configuration submenu, on a store to which one Person is
\* added while it is empty.
NextSchema ==
    \/ \E k \in KeyNames, m \in BOOLEAN, d \in Defaults : ConfigAddKey(k, m, d)
    \/ \E o \in KeyNames, n \in KeyNames : ConfigRenameKey(o, n)
    \/ \E k \in KeyNames, sure \in BOOLEAN : ConfigDeleteKey(k, sure)
    \/ persons = <<>> /\ AddPerson("a", [firstName |-> "x", dod |-> "y"])

SpecSchema == Init /\ [][NextSchema]_vars

\* The property-configuration submenu's add and delete, and a rename that
\* brings a reserved name into the schema, on a store to which one Person is
\* added while it is empty.
NextAddKey ==
    \/ \E k \in KeyNames, m \in BOOLEAN, d \in Defaults : ConfigAddKey(k, m, d)
    \/ \E k \in KeyNames, sure \in BOOLEAN : ConfigDeleteKey(k, sure)
    \/ ConfigRenameKey("dod", "id")
    \/ persons = <<>> /\ AddPerson("a", [firstName |-> "x"])

SpecAddKey == Init /\ [][NextAddKey]_vars

\* The GUI manager on a store the console manager adds Persons to, with
\* childNumber added to the schema.
NextGui ==
    \/ \E i \in GuiIds : AddPerson(i, <<>>)
    \/ ConfigAddKey("childNumber", FALSE, "")
    \/ \E i \in tree_rows : SelectPerson(i)
    \/ ViewChildren
    \/ GoToTopGeneration
    \/ GoBack
    \/ \E e \in FormEntries(keys), s \in BOOLEAN : AddChild(e, s)
    \/ \E e \in FormEntries(keys), s \in BOOLEAN,
          q \in {NoSelection} \cup ParentIds(persons, rels, current_person_id) :
            AddSibling(e, s, q)
    \/ \E e \in FormEntries(keys), s \in BOOLEAN, i \in GuiIds \cup {""} :
            AddSpouse(e, s, i)

SpecGui == Init /\ [][NextGui]_vars

\* The console manager from its start to its end.
NextConsole ==
    \/ \E o \in StartupOutcomes, n \in DbLists : ConsoleStartup(ConsoleUriHosted, o, n)
    \/ phase = "running" /\
            \E i \in Ids, a \in MenuAnswers(keys, mandatory_keys) : AddPersonMenu(i, a)
    \/ phase = "running" /\
            \E i \in Ids, a \in MenuAnswers(keys, mandatory_keys) : ModifyPersonMenu(i, a)
    \/ phase = "running" /\ \E i \in Ids : DeletePerson(i)
    \/ \E operation \in MenuOperations : MenuOperationFails(operation)
    \/ Exit

SpecConsole == InitStartup /\ [][NextConsole]_vars

\* The modify operation of both front-ends, on Persons the console manager
\* adds and deletes.
NextModify ==
    \/ \E i \in Ids, a \in MenuAnswers(keys, mandatory_keys) : AddPersonMenu(i, a)
    \/ \E i \in Ids, a \in MenuAnswers(keys, mandatory_keys) : ModifyPersonMenu(i, a)
    \/ \E i \in Ids : DeletePerson(i)
    \/ GoToTopGeneration
    \/ \E i \in tree_rows : SelectPerson(i)
    \/ \E e \in DialogEdits(keys), s \in BOOLEAN : ModifyPerson(e, s)

SpecModify == Init /\ [][NextModify]_vars

\* The GUI manager's navigation, with the refreshes that follow add child
\* and modify, on a store to which the console manager adds one Person
\* while it is empty.
NextNav ==
    \/ persons = <<>> /\ AddPerson("a", <<>>)
    \/ ConfigAddKey("childNumber", FALSE, "")
    \/ \E i \in tree_rows : SelectPerson(i)
    \/ ViewChildren
    \/ GoToTopGeneration
    \/ GoBack
    \/ \E e \in FormEntries(keys), s \in BOOLEAN : AddChild(e, s)
    \/ \E v \in EditedVals, s \in BOOLEAN : ModifyPerson([dod |-> v], s)

SpecNav == Init /\ [][NextNav]_vars

\* The GUI manager's add child and add sibling, on a store the console
\* manager adds Persons to and on every schema the console manager's add of
\* childNumber and rename of dod to id lead to.
NextForm ==
    \/ \E i \in GuiIds : AddPerson(i, <<>>)
    \/ ConfigAddKey("childNumber", FALSE, "")
    \/ ConfigRenameKey("dod", "id")
    \/ GoToTopGeneration
    \/ \E i \in tree_rows : SelectPerson(i)
    \/ \E e \in FormEntries(keys), s \in BOOLEAN : AddChild(e, s)
    \/ \E e \in FormEntries(keys), s \in BOOLEAN,
          q \in {NoSelection} \cup ParentIds(persons, rels, current_person_id) :
            AddSibling(e, s, q)

SpecForm == Init /\ [][NextForm]_vars

\* The GUI manager from its connection screen on, on a store the console
\* manager adds Persons to.
NextGuiConn ==
    \/ \E h \in BOOLEAN, o \in ConnectOutcomes, n \in DbLists : ConnectToDb(h, o, n)
    \/ \E c \in UNION DbLists, r \in BOOLEAN : InitializeMainApp(c, r)
    \/ \E i \in GuiIds : AddPerson(i, <<>>)
    \/ phase = "running" /\ \E i \in tree_rows : SelectPerson(i)
    \/ phase = "running" /\ ViewChildren
    \/ phase = "running" /\ GoToTopGeneration
    \/ phase = "running" /\ GoBack
    \/ phase = "running" /\
            \E e \in FormEntries(keys), s \in BOOLEAN, i \in GuiIds \cup {""} :
                AddSpouse(e, s, i)
    \/ GoToTopGenerationRaises
    \/ ViewChildrenRaises
    \/ GoBackRaises
    \/ \E t \in {"child", "sibling", "spouse"} : AddRelativeRaises(t)

SpecGuiConn == InitStartup /\ [][NextGuiConn]_vars

---------------------------------------------------------------------------
(* Claims.                                                                 *)

\* C1: after any sequence of add_key / rename_key / delete_key calls from
\* the default schema, mandatory_keys is a subset of keys and neither list
\* contains 'id' or 'created_at'.
C1_SchemaInvariant ==
    /\ Range(mandatory_keys) \subseteq Range(keys)
    /\ Range(keys) \cap MANAGED_PROPERTIES = {}
    /\ Range(mandatory_keys) \cap MANAGED_PROPERTIES = {}

\* C2: a Person's id is immutable: no operation changes or removes the id
\* property of a Person that it leaves in the store.
C2_IdImmutable ==
    [][\A h \in DOMAIN persons \cap DOMAIN persons' :
            "id" \in DOMAIN persons[h] =>
                /\ "id" \in DOMAIN persons'[h]
                /\ persons'[h]["id"] = persons[h]["id"]]_vars

\* What find returns for a Person that add(id, properties) has created:
\* the submitted properties, the id and the creation timestamp.
Submitted(person_id, properties) ==
    Overlay([id |-> person_id, created_at |-> Timestamp], properties)

\* C4 as stated: add(id, properties) followed by find(id) returns exactly the
\* submitted properties plus the id and a non-empty creation timestamp, and
\* nothing else, whatever the store held before.
C4_AddThenFindExact ==
    last.op = "add" =>
        /\ find_person(last.id) = Submitted(last.id, last.properties)
        /\ find_person(last.id)["created_at"] # ""

\* C4 as amended: add(id, properties) followed by find(id) returns exactly the
\* submitted properties plus the id and a non-empty creation timestamp when
\* no Person had that id before the add; when one had, find(id) returns what
\* that Person held before with the submitted properties laid over it.
C4_AddThenFindOverlay ==
    [][last'.op = "add" =>
        LET before == FindIn(persons, last'.id)
            after == FindIn(persons', last'.id)
        IN  IF before = None
            THEN /\ after = Submitted(last'.id, last'.properties)
                 /\ after["created_at"] # ""
            ELSE after = Overlay(before, last'.properties)]_vars

\* C4's case: add has acted on an id a Person already had, and find returns
\* a property that was not submitted.
C4_Witness ==
    /\ last.op = "add"
    /\ last.existed
    /\ DOMAIN find_person(last.id) \ (DOMAIN last.properties \cup MANAGED_PROPERTIES) # {}

\* C5: for an existing Person, update(id, {k: v}, []) followed by find(id)
\* shows k = v, and update(id, {}, [k]) followed by find(id) shows k absent
\* when k is not mandatory; every other property of that Person and every
\* other Person is unchanged.
C5_UpdateSetsAndRemoves ==
    [][(last'.op = "update" /\ Matching(persons, last'.id) # {}) =>
        LET id == last'.id
            set == last'.props_to_set
            remove == last'.props_to_remove
            before == FindIn(persons, id)
            after == FindIn(persons', id)
            OthersSame(k) ==
                /\ DOMAIN after \ {k} = DOMAIN before \ {k}
                /\ \A j \in DOMAIN after \ {k} : after[j] = before[j]
                /\ DOMAIN persons' = DOMAIN persons
                /\ \A h \in DOMAIN persons \ Matching(persons, id) :
                        persons'[h] = persons[h]
        IN  /\ \A k \in DOMAIN set :
                (DOMAIN set = {k} /\ remove = {}) =>
                    /\ k \in DOMAIN after
                    /\ after[k] = set[k]
                    /\ OthersSame(k)
            /\ \A k \in remove :
                (set = <<>> /\ remove = {k} /\ k \notin Range(mandatory_keys)) =>
                    /\ k \notin DOMAIN after
                    /\ OthersSame(k)]_vars

\* C5's case: update has set one property of an existing Person while the
\* store holds another Person.
C5_Witness ==
    /\ last.op = "update"
    /\ last.existed
    /\ last.props_to_remove = {}
    /\ \E k \in EditKeys :
            /\ DOMAIN last.props_to_set = {k}
            /\ find_person(last.id)[k] = last.props_to_set[k]
    /\ Cardinality(DOMAIN persons) > 1

\* The SPOUSE_OF relationships between a Person with id1 and one with id2.
SpousesBetween(id1, id2) ==
    {r \in rels :
        /\ r[1] = "SPOUSE_OF"
        /\ \/ r[2] \in Matching(persons, id1) /\ r[3] \in Matching(persons, id2)
           \/ r[2] \in Matching(persons, id2) /\ r[3] \in Matching(persons, id1)}

\* The last call was link(a, b, SPOUSE_OF) for two existing Persons a and b.
LinkedSpouses ==
    /\ last.op = "link"
    /\ upper(last.rel_type) = "SPOUSE_OF"
    /\ last.id1 # last.id2
    /\ Matching(persons, last.id1) # {}
    /\ Matching(persons, last.id2) # {}

\* C6: link is idempotent: for two existing Persons a and b, after
\* link(a, b, SPOUSE_OF) called twice there is exactly one SPOUSE_OF edge
\* between a and b, and find_relatives(a, spouses) lists b exactly once.
C6_LinkTwiceOneEdge ==
    (LinkedSpouses /\ last.again) =>
        /\ Cardinality(SpousesBetween(last.id1, last.id2)) = 1
        /\ Listed(find_relatives(last.id1, "-[:SPOUSE_OF]-"), last.id2) = 1

\* C7: SPOUSE_OF is undirected: for two existing Persons a and b, after
\* link(a, b, SPOUSE_OF) followed by link(b, a, SPOUSE_OF) there is exactly
\* one SPOUSE_OF edge between them, and the either-direction spouse lookup
\* of a returns b exactly once.
C7_LinkReversedOneEdge ==
    (LinkedSpouses /\ last.reversed) =>
        /\ Cardinality(SpousesBetween(last.id1, last.id2)) = 1
        /\ Listed(find_relatives(last.id2, "-[:SPOUSE_OF]-"), last.id1) = 1

\* C10: both endpoints of every CHILD_OF and SPOUSE_OF edge are existing
\* Persons; link creates no edge when either id does not exist; delete(id)
\* removes the Person together with every edge incident to it, so that no
\* parent lookup returns the deleted Person.
C10_EndpointsExist ==
    /\ [](\A r \in rels : r[2] \in DOMAIN persons /\ r[3] \in DOMAIN persons)
    /\ [][(/\ last'.op = "link"
           /\ \/ Matching(persons, last'.id1) = {}
              \/ Matching(persons, last'.id2) = {}) => rels' = rels]_vars
    /\ [][last'.op = "delete" =>
            /\ Matching(persons', last'.id) = {}
            /\ \A r \in rels' : /\ r[2] \notin Matching(persons, last'.id)
                                /\ r[3] \notin Matching(persons, last'.id)
            /\ \A c \in Ids : \A r \in ParentRows(persons', rels', c) :
                    r[3] \notin Matching(persons, last'.id)]_vars

\* C10's case: delete has removed a Person that had relationships, and left
\* another Person in the store.
C10_Witness ==
    /\ last.op = "delete"
    /\ last.detached > 0
    /\ persons # <<>>

\* C3: Person ids are unique: no two Person entities have the same id.
C3_IdsUnique ==
    \A h1 \in DOMAIN persons, h2 \in DOMAIN persons :
        (h1 # h2 /\ "id" \in DOMAIN persons[h1] /\ "id" \in DOMAIN persons[h2])
            => persons[h1]["id"] # persons[h2]["id"]

\* The Persons that are P or a spouse of P.
ParentsOfChild(ps, rs, P) ==
    Matching(ps, P) \cup {row[3] : row \in SpouseRows(ps, rs, P)}

\* C8: adding a child of P creates a CHILD_OF edge from the new Person to P
\* and to every Person that is a spouse of P at that moment, and no other
\* edge; for a P with two recorded spouses that is exactly three edges.
C8_AddChildEdges ==
    [][(last'.op = "gui_add" /\ last'.kind = "child" /\ last'.outcome = "created") =>
        /\ rels' \ rels = {<<"CHILD_OF", last'.node, q>> :
                              q \in ParentsOfChild(persons, rels, last'.related)}
        /\ Cardinality(ParentsOfChild(persons, rels, last'.related)
                            \ Matching(persons, last'.related)) = 2
            => Cardinality(rels' \ rels) = 3]_vars

C11_Navigation ==
    /\ view_mode = "generation" /\ view_context_id = 1 /\ history = <<>>
    /\ [][last'.op = "view_children" =>
            /\ history' = Append(history, <<view_mode, view_context_id>>)
            /\ view_mode' = "children"
            /\ view_context_id' = current_person_id]_vars
    /\ [][last'.op = "go_back" =>
            /\ history # <<>>
            /\ history' = SubSeq(history, 1, Len(history) - 1)
            /\ <<view_mode', view_context_id'>> = history[Len(history)]]_vars
    /\ [][(last.op = "view_children" /\ last'.op = "go_back") =>
            /\ view_mode' = last.mode
            /\ view_context_id' = last.context_id
            /\ history' = last.history]_vars
    /\ [][last'.op = "go_to_top_generation" =>
            /\ view_mode' = "generation"
            /\ view_context_id' = 1
            /\ history' = <<>>]_vars

\* C11's case: go back has undone a view children that was made from a
\* CHILDREN view, and the history is not empty afterwards.
C11_Witness ==
    /\ last.op = "go_back"
    /\ last.undoes = "view_children"
    /\ view_mode = "children"
    /\ history # <<>>

\* The operation performed last has issued a repository query.
GuiQueried ==
    \/ last.op \in {"initialize_main_app", "go_to_top_generation",
                    "view_children", "go_back", "gui_add"}
    \/ last.op = "connect_to_db" /\ last.outcome = "main_app"

\* C12: the connection acquired at startup stays usable for the whole
\* process lifetime: on every connection path no repository query is issued
\* on a connection that has already been released.
C12_QueriesOnOpenConnection == GuiQueried => driver = "open"

\* C13: whenever the console program terminates after a connection was
\* acquired (on the exit choice, or on an unrecoverable startup error such as
\* rejected credentials or a failed connectivity check), the connection has
\* been released before termination.
C13_ReleasedAtTermination == phase = "ended" => driver \in {"none", "closed"}

\* C14: after a successful startup no operation failure is fatal: when a
\* console menu operation fails with a backend error, the menu loop continues
\* to accept the next operation; the process ends only on the exit choice.
C14_OnlyExitEnds ==
    [][(phase = "running" /\ phase' = "ended") => last'.op = "exit"]_vars

\* C15: every Person created through either front-end (console add, GUI add
\* child / sibling / spouse) has, immediately after creation, a non-empty
\* value for every key that is in mandatory_keys at that moment.
C15_MandatoryOnCreation ==
    [][(\/ last'.op = "gui_add" /\ last'.outcome = "created"
        \/ last'.op = "add_menu" /\ ~last'.existed) =>
            \A k \in Range(mandatory_keys) :
                /\ k \in DOMAIN persons'[last'.node]
                /\ persons'[last'.node][k] # ""]_vars

\* A Person has a value for a key.
HasValue(person, k) == k \in DOMAIN person /\ person[k] # ""

\* C16: a modify operation from either front-end never removes a property
\* that is currently mandatory: for every Person and every key in
\* mandatory_keys, if the Person has a value for that key before the console
\* or GUI modify, it still has a value for it afterwards.
C16_ModifyKeepsMandatory ==
    [][last'.op \in {"modify_menu", "gui_modify"} =>
        \A h \in DOMAIN persons \cap DOMAIN persons' :
            \A k \in Range(mandatory_keys) :
                HasValue(persons[h], k) => HasValue(persons'[h], k)]_vars

\* C17: in the console modify operation, answering a field's prompt with an
\* empty line keeps that field's current value: every property whose prompt
\* was left blank has the same value after the operation as before it.
C17_BlankKeepsValue ==
    [][(last'.op = "modify_menu" /\ last'.found) =>
        LET before == FindIn(persons, last'.id)
            after == FindIn(persons', last'.id)
        IN  \A prop \in Range(keys) :
                strip(last'.answers[prop]) = "" =>
                    /\ prop \in DOMAIN after <=> prop \in DOMAIN before
                    /\ prop \in DOMAIN before => after[prop] = before[prop]]_vars

\* C18: rename_key(old, new) replaces old by new in keys and in
\* mandatory_keys wherever old occurs, and loses no stored value: for every
\* pair of names (including old = new and a new that some Person already
\* holds), every Person that held old = v before the call holds new = v
\* afterwards, and no Person holds old afterwards when old differs from new.
C18_RenameKeepsValues ==
    [][last'.op = "rename_key" =>
        LET old == last'.old_key
            new == last'.new_key
        IN  /\ keys' = Renamed(keys, old, new)
            /\ mandatory_keys' = Renamed(mandatory_keys, old, new)
            /\ DOMAIN persons' = DOMAIN persons
            /\ \A h \in DOMAIN persons :
                    /\ old \in DOMAIN persons[h] =>
                            /\ new \in DOMAIN persons'[h]
                            /\ persons'[h][new] = persons[h][old]
                    /\ old # new => old \notin DOMAIN persons'[h]]_vars

\* The reserved system names.
ReservedNames == {"id", "created_at"}

\* C19: add_key called with a reserved system name ('id' or 'created_at')
\* is rejected and changes nothing: keys, mandatory_keys and every Person's
\* properties are the same after the call as before.
C19_AddReservedRejected ==
    [][(last'.op = "add_key" /\ last'.key \in ReservedNames) =>
        /\ last'.rejected
        /\ keys' = keys
        /\ mandatory_keys' = mandatory_keys
        /\ persons' = persons]_vars

\* C19's case: add_key has been refused for a reserved name while the store
\* holds a Person.
C19_Witness ==
    /\ last.op = "add_key"
    /\ last.key \in ReservedNames
    /\ last.rejected
    /\ persons # <<>>

\* C20: adding a child or sibling without a childNumber fails and creates no
\* Person and no edge, on every way the data-entry dialog can then be left
\* (a schema without 'childNumber', a rejected submit followed by Cancel):
\* an add child or add sibling that changes the store has created a Person
\* that has a childNumber.
C20_ChildNumberRequired ==
    [][(/\ last'.op = "gui_add"
        /\ last'.kind \in {"child", "sibling"}
        /\ persons' # persons \/ rels' # rels) =>
            /\ last'.outcome = "created"
            /\ HasValue(persons'[last'.node], "childNumber")]_vars

\* C21: the keys list and the mandatory_keys list never contain the same
\* name twice: from the default schema, after any sequence of add_key,
\* rename_key and delete_key calls each name occurs at most once in each
\* list.
C21_NoDuplicateKeys ==
    /\ Cardinality(Range(keys)) = Len(keys)
    /\ Cardinality(Range(mandatory_keys)) = Len(mandatory_keys)

\* The history is empty exactly in the ROOT view, its bottom entry is the
\* ROOT state, and Go Back is enabled exactly when it is not empty.
ViewCursorConsistent ==
    /\ history = <<>> <=> view_mode = "generation"
    /\ history # <<>> => history[1] = <<"generation", 1>>
    /\ back_button = "normal" <=> history # <<>>

\* The step has ended in refresh_current_view.
Refreshed ==
    /\ last'.op \in {"gui_add", "gui_modify"}
    /\ last'.outcome \in {"created", "updated"}

\* C22: in every state of the GUI reachable after connection by view
\* children, go back, go to top generation and the refresh after add and
\* modify, the history is empty exactly when the view mode is ROOT, the
\* bottom entry of a non-empty history is the ROOT state, Go Back is enabled
\* exactly when the history is non-empty, and a refresh changes neither
\* mode, context nor history.
C22_ViewCursor ==
    /\ []ViewCursorConsistent
    /\ [][Refreshed => UNCHANGED <<view_mode, view_context_id, history>>]_vars

\* C22's case: a refresh has been made in a CHILDREN view reached through
\* two view children, with both earlier views on the history.
C22_Witness ==
    /\ last.op \in {"gui_add", "gui_modify"}
    /\ last.outcome \in {"created", "updated"}
    /\ view_mode = "children"
    /\ Len(history) = 2

====
